---- MODULE Spec2Model ----
(***************************************************************************)
(* State-machine model of the claude-applet core: the application model    *)
(* (app.rs), the usage monitoring loop (claude_monitor.rs) and the OAuth   *)
(* login, token and credential functions (claude.rs).                      *)
(*                                                                         *)
(* Strings the code builds or inspects are modelled as sequences of words  *)
(* (so that `contains` is a real sub-sequence search), Option<T> as a      *)
(* sequence of length 0 or 1, and Result<T, E> as a record with a tag.     *)
(***************************************************************************)
EXTENDS Integers, Sequences, FiniteSets, TLC

VARIABLES
    app,        \* AppModel: is_usage_visible, access_token, daily_usage, weekly_usage
    started,    \* TRUE once the startup task (Message::GetLocalCredentials) was handled
    home_set,   \* whether the HOME environment variable is set
    disk,       \* what the file system does to a write of the credentials file
    file,       \* content of $HOME/.config/claude-tray/credentials.json
    mons,       \* the running instances of claude_usage_monitoring, each
                \* with the mpsc channel of its subscription stream
    logins,     \* the open_oauth_login tasks (Task::perform of LoginClicked)
    port,       \* who listens on 127.0.0.1:OAUTH_REDIRECT_PORT
    refreshes,  \* the refresh_credentials tasks (Task::perform of RefreshToken)
    calls       \* calls of the functions of claude.rs made on their own (outside
                \* the application), each with its arguments and what it returned

vars == <<app, started, home_set, disk, file, mons, logins, port, refreshes, calls>>

(***************************************************************************)
(* Bounds of the model.                                                    *)
(***************************************************************************)
\* messages the subscription channel holds before `send` suspends
\* (the code's capacity is larger; a full channel only delays the loop)
MaxChannel == 1
\* open_oauth_login tasks that may be in progress at the same time
MaxLogins == 1
\* refresh_credentials tasks that may be in progress at the same time
MaxRefreshes == 1
\* calls of the credential store made one after the other
MaxCalls == 3

(***************************************************************************)
(* Option and Result.                                                      *)
(***************************************************************************)
None == <<>>
Some(v) == <<v>>

(***************************************************************************)
(* claude.rs: constants and data.                                          *)
(***************************************************************************)
\* "OAuth token has expired", as a sequence of words
ANTHROPIC_ERROR_AUTH_EXPIRED == <<"OAuth", "token", "has", "expired">>

\* str::contains: needle occurs as a contiguous sub-sequence of hay
Contains(hay, needle) ==
    \E i \in 0..(Len(hay) - Len(needle)) :
        SubSeq(hay, i + 1, i + Len(needle)) = needle

ClaudeCredentials(a, r) == [access_token |-> a, refresh_token |-> r]

\* #[derive(Default)]: both strings empty
DefaultCredentials == ClaudeCredentials("", "")

\* usage snapshots the usage endpoint may return (five_hour, seven_day)
Snapshots ==
    { [five_hour |-> 42, seven_day |-> 10],
      [five_hour |-> 7, seven_day |-> 99] }

\* messages an API error envelope may carry
ErrorMessages ==
    { <<"OAuth", "token", "has", "expired">>,
      <<"Error:", "OAuth", "token", "has", "expired", "(401)">>,
      <<"OAuth", "token", "has", "been", "revoked">> }

ErrorEnvelopes == { [error_type |-> "authentication_error", message |-> m] : m \in ErrorMessages }

\* A response body, seen through the two decoders get_usage applies to it:
\* `usage` is what it decodes to as ClaudeUsageResponse (None: it does not),
\* `error` what it decodes to as ClaudeErrorResponse (None: it does not).
\* serde ignores unknown fields, so one body may decode as both.
UsageBodies ==
    { [usage |-> u, error |-> e] :
        u \in {None} \cup {Some(s) : s \in Snapshots},
        e \in {None} \cup {Some(v) : v \in ErrorEnvelopes} }

\* what the HTTP exchange of get_usage may do
UsageResponses ==
    { [transport |-> t, status |-> 0, body |-> [usage |-> None, error |-> None]] :
        t \in {"send_failed", "read_failed"} }
    \cup { [transport |-> "ok", status |-> s, body |-> b] :
            s \in {200, 401}, b \in UsageBodies }

ErrorText(fmt, arg) == [fmt |-> fmt, arg |-> arg]

GetUsageError(message, resp) ==
    [tag |-> "Err", usage |-> None, message |-> message, antropic_error_response |-> resp]

\* (variant: a status that is not a success is an error whatever the body)
get_usage_StatusFirst(r) ==
    IF r.transport = "send_failed"
    THEN GetUsageError(ErrorText("error requesting usage", None), None)
    ELSE IF r.transport = "read_failed"
    THEN GetUsageError(ErrorText("error reading response text", None), None)
    ELSE IF r.body.usage # None /\ r.status >= 200 /\ r.status < 300
    THEN [tag |-> "Ok", usage |-> r.body.usage,
          message |-> ErrorText("", None), antropic_error_response |-> None]
    ELSE IF r.body.error # None
    THEN GetUsageError(ErrorText("api error", r.body.error), r.body.error)
    ELSE GetUsageError(ErrorText("unexpected api response format", Some(r.body)), None)

\* (variant: a body that could not be read is reported as an unexpected body)
get_usage_ReadFailureAsUnexpected(r) ==
    IF r.transport = "send_failed"
    THEN GetUsageError(ErrorText("error requesting usage", None), None)
    ELSE IF r.transport = "read_failed" \/ (r.body.usage = None /\ r.body.error = None)
    THEN GetUsageError(ErrorText("unexpected api response format", Some(r.body)), None)
    ELSE IF r.body.usage # None
    THEN [tag |-> "Ok", usage |-> r.body.usage,
          message |-> ErrorText("", None), antropic_error_response |-> None]
    ELSE GetUsageError(ErrorText("api error", r.body.error), r.body.error)

\* get_usage, from the response of the request on
get_usage(r) ==
    IF r.transport = "send_failed"
    THEN GetUsageError(ErrorText("error requesting usage", None), None)
    ELSE IF r.transport = "read_failed"
    THEN GetUsageError(ErrorText("error reading response text", None), None)
    ELSE IF r.body.usage # None
    THEN [tag |-> "Ok", usage |-> r.body.usage,
          message |-> ErrorText("", None), antropic_error_response |-> None]
    ELSE IF r.body.error # None
    THEN GetUsageError(ErrorText("api error", r.body.error), r.body.error)
    ELSE GetUsageError(ErrorText("unexpected api response format", Some(r.body)), None)

(***************************************************************************)
(* app.rs: messages, subscription.                                         *)
(***************************************************************************)
Message(type, arg) == [type |-> type, arg |-> arg]

\* (variant: the is_usage_visible test is missing)
subscription_TokenOnly(a) ==
    IF a.access_token.access_token # ""
    THEN << [id |-> "UsageMonitor", token |-> a.access_token.access_token] >>
    ELSE <<>>

\* AppModel::subscription: the batch of subscriptions, each with the id it
\* runs under and the token its stream has cloned
subscription(a) ==
    IF a.is_usage_visible /\ a.access_token.access_token # ""
    THEN << [id |-> "UsageMonitor", token |-> a.access_token.access_token] >>
    ELSE <<>>

\* claude_usage_monitoring(token, &mut channel) at its first poll, with the
\* channel stream::channel has made for it
MonStarted(recipe) ==
    [id |-> recipe.id, token |-> recipe.token, pc |-> "fetch", inflight |-> 0,
     result |-> None, emitted |-> <<>>, sleep |-> 0, channel |-> <<>>]

Range(seq) == { seq[k] : k \in 1..Len(seq) }

\* The runtime re-evaluates subscription() after every update: a stream whose
\* id is already running is kept as it is (run_with_id), one whose id is new is
\* started, one whose id has left the batch is dropped with its channel.
SyncSubscription(batch, running) ==
    LET kept == SelectSeq(running, LAMBDA m : \E r \in Range(batch) : r.id = m.id)
        new  == SelectSeq(batch, LAMBDA r : \A m \in Range(running) : m.id # r.id)
    IN  kept \o [k \in 1..Len(new) |-> MonStarted(new[k])]

(***************************************************************************)
(* claude.rs: the credential store.                                        *)
(***************************************************************************)
\* A file's text: `json` tells whether it is a JSON object at all, `members`
\* are the object's members in the order written.
Text(json, members) == [json |-> json, members |-> members]

\* serde_json::to_string_pretty of a ClaudeCredentials
ToJson(c) ==
    Text(TRUE, << <<"access_token", c.access_token>>,
                  <<"refresh_token", c.refresh_token>> >>)

\* the values the members of text t give to key k, in order
Field(t, k) ==
    LET idx == { i \in 1..Len(t.members) : t.members[i][1] = k }
    IN  { t.members[i][2] : i \in idx }

CountField(t, k) == Cardinality({ i \in 1..Len(t.members) : t.members[i][1] = k })

Ok(v) == [tag |-> "Ok", value |-> Some(v), error |-> ErrorText("", None)]
Err(fmt) == [tag |-> "Err", value |-> None, error |-> ErrorText(fmt, None)]

\* serde_json::from_str::<ClaudeCredentials>: each field exactly once
FromJson(t) ==
    IF t.json /\ CountField(t, "access_token") = 1 /\ CountField(t, "refresh_token") = 1
    THEN Ok(ClaudeCredentials(CHOOSE v \in Field(t, "access_token") : TRUE,
                              CHOOSE v \in Field(t, "refresh_token") : TRUE))
    ELSE Err("error getting credentials")

\* get_local_credentials, from the environment and the file system
get_local_credentials(home, f) ==
    IF ~home THEN Err("home environment variable not set")
    ELSE IF f = None THEN Err("failed to read credentials file")
    ELSE FromJson(f[1])

\* what the file system may do to a save: write it, or fail to create the
\* directory or to write the file (the file is then left as it was, or
\* truncated by the failed write)
SaveOutcomes == {"ok", "failed", "truncated"}

\* save_credentials_locally: the Result it returns
SaveResult(home, outcome) ==
    IF ~home THEN Err("home environment variable not set")
    ELSE IF outcome = "ok" THEN Ok(<<>>)
    ELSE Err("failed to write credentials file")

\* (variant: the pair is added to the members the file already has)
save_credentials_locally_Appends(home, f, token, outcome) ==
    IF ~home THEN f
    ELSE IF outcome = "ok"
    THEN LET written == ToJson(ClaudeCredentials(token.access_token, token.refresh_token))
         IN  IF f # None /\ f[1].json
             THEN Some(Text(TRUE, f[1].members \o written.members))
             ELSE Some(written)
    ELSE IF outcome = "truncated" THEN Some(Text(FALSE, <<>>))
    ELSE f

\* save_credentials_locally: the file after the call
save_credentials_locally(home, f, token, outcome) ==
    IF ~home THEN f
    ELSE IF outcome = "ok"
    THEN Some(ToJson(ClaudeCredentials(token.access_token, token.refresh_token)))
    ELSE IF outcome = "truncated" THEN Some(Text(FALSE, <<>>))
    ELSE f

\* credential files the application may find at startup
InitFiles ==
    { None,
      Some(Text(FALSE, <<>>)),
      Some(ToJson(ClaudeCredentials("a0", "r0"))),
      Some(ToJson(ClaudeCredentials("", "r0"))),
      Some(ToJson(ClaudeCredentials("a0", ""))),
      Some(Text(TRUE, << <<"access_token", "a0">> >>)) }

(***************************************************************************)
(* claude.rs: the OAuth login flow.                                        *)
(***************************************************************************)
\* values generate_state may return (32 random bytes, hex)
States == {"abc123", "5f0e77"}

\* values generate_code_verifier may return (32 random bytes, base64url)
Verifiers == {"v-one", "v-two"}

\* authorization codes the provider may put in a redirect
Codes == {"XYZ", "Q7"}

\* generate_code_challenge: base64url(SHA-256(verifier)), one-to-one in the model
generate_code_challenge(code_verifier) == <<"S256", code_verifier>>

\* the query parameters a callback request line may carry, in order
QueryParams ==
    { <<"state", s>> : s \in States } \cup { <<"code", c>> : c \in Codes }

Requests ==
    { <<>> } \cup { <<p>> : p \in QueryParams }
             \cup { <<p, q>> : p \in QueryParams, q \in QueryParams }

ErrWith(fmt, arg) == [tag |-> "Err", value |-> None, error |-> ErrorText(fmt, Some(arg))]

\* utils::extract_param_from_url: the value of the first parameter of that
\* name in the request, an error when the request has none
extract_param_from_url(request, name) ==
    LET idx == { i \in 1..Len(request) : request[i][1] = name }
    IN  IF idx = {}
        THEN ErrWith("missing parameter", name)
        ELSE Ok(request[CHOOSE i \in idx : \A j \in idx : i <= j][2])

\* (variant: the received state is not compared with the expected one)
CallbackCode_NoStateCheck(request, expected_state) ==
    LET received_state == extract_param_from_url(request, "state")
    IN  IF received_state.tag = "Err" THEN received_state
        ELSE extract_param_from_url(request, "code")

\* (variant: the second extraction reads "state" again)
CallbackCode_ReturnsState(request, expected_state) ==
    LET received_state == extract_param_from_url(request, "state")
    IN  IF received_state.tag = "Err" THEN received_state
        ELSE IF received_state.value[1] # expected_state
        THEN Err("state value is not the same")
        ELSE extract_param_from_url(request, "state")

\* (variant: a missing code becomes the empty code)
CallbackCode_DefaultsMissingCode(request, expected_state) ==
    LET received_state == extract_param_from_url(request, "state")
        code == extract_param_from_url(request, "code")
    IN  IF received_state.tag = "Err" THEN received_state
        ELSE IF received_state.value[1] # expected_state
        THEN Err("state value is not the same")
        ELSE IF code.tag = "Err" THEN Ok("") ELSE code

\* wait_for_oauth_callback, from the request read to the code it will answer:
\* extract state, compare with the expected state, extract code
CallbackCode(request, expected_state) ==
    LET received_state == extract_param_from_url(request, "state")
    IN  IF received_state.tag = "Err" THEN received_state
        ELSE IF received_state.value[1] # expected_state
        THEN Err("state value is not the same")
        ELSE extract_param_from_url(request, "code")

\* tokens the token endpoint may issue (AnthropicTokenResponse)
TokenValues ==
    { [access_token |-> "a1", refresh_token |-> "r1"],
      [access_token |-> "a2", refresh_token |-> "r2"] }

\* a token endpoint body, seen through the AnthropicTokenResponse decoder
TokenBodies ==
    { [token |-> None, text |-> "body"] }
    \cup { [token |-> Some(t), text |-> "body"] : t \in TokenValues }

NoBody == [token |-> None, text |-> ""]

\* what the HTTP exchange with the token endpoint may do
TokenResponses ==
    { [transport |-> "send_failed", status |-> 0, body |-> NoBody] }
    \cup { [transport |-> "read_failed", status |-> s, body |-> NoBody] :
            s \in {200, 400} }
    \cup { [transport |-> "ok", status |-> s, body |-> b] :
            s \in {200, 400}, b \in TokenBodies }

\* StatusCode::is_success
is_success(status) == status >= 200 /\ status < 300

\* the JSON body exchange_code_for_token posts
ExchangeBody(code, state, code_verifier) ==
    [grant_type |-> "authorization_code", code |-> code, state |-> state,
     code_verifier |-> code_verifier]

\* (variant: the body is decoded before the status is looked at)
exchange_code_for_token_ParsesBeforeStatus(r) ==
    IF r.transport = "send_failed" THEN Err("failed to send request")
    ELSE IF r.transport = "read_failed" THEN Err("failed to read response")
    ELSE IF r.body.token # None THEN Ok(r.body.token[1])
    ELSE IF ~is_success(r.status)
    THEN ErrWith("token exchange failed with status", [status |-> r.status, body |-> r.body])
    ELSE Err("failed to parse token response")

\* exchange_code_for_token, from the response of the request on
exchange_code_for_token(r) ==
    IF r.transport = "send_failed" THEN Err("failed to send request")
    ELSE IF r.transport = "read_failed" THEN Err("failed to read response")
    ELSE IF ~is_success(r.status)
    THEN ErrWith("token exchange failed with status", [status |-> r.status, body |-> r.body])
    ELSE IF r.body.token = None THEN Err("failed to parse token response")
    ELSE Ok(r.body.token[1])

\* refresh_credentials, from the response of the request on
refresh_credentials(r) ==
    IF r.transport = "send_failed" THEN Err("Token refresh request failed")
    ELSE IF ~is_success(r.status)
    THEN ErrWith("Token refresh failed with status",
                 [status |-> r.status,
                  body |-> IF r.transport = "read_failed"
                           THEN [token |-> None, text |-> "Unknown error"]
                           ELSE r.body])
    ELSE IF r.transport = "read_failed" \/ r.body.token = None
    THEN Err("Failed to parse token response")
    ELSE Ok(r.body.token[1])

\* a slot of the task pool with no open_oauth_login in it
IdleLogin ==
    [pc |-> "idle", state |-> "", code_verifier |-> "", auth_url |-> None,
     accepted |-> 0, request |-> None, code |-> None, responded |-> FALSE,
     callback |-> None, exchange |-> <<>>, result |-> None]

IdleRefresh == [pc |-> "idle", refresh_token |-> "", sent |-> <<>>, result |-> None]

Listener(i) == Some([owner |-> "login", id |-> i])

\* another process (a second instance of the applet) listening on the port
ForeignListener == Some([owner |-> "other", id |-> 0])

(***************************************************************************)
(* Initial state: AppModel::init.                                          *)
(***************************************************************************)
Init ==
    /\ app = [is_usage_visible |-> FALSE, access_token |-> DefaultCredentials,
              daily_usage |-> 0, weekly_usage |-> 0]
    /\ started = FALSE
    /\ home_set \in BOOLEAN
    /\ disk \in SaveOutcomes
    /\ file \in InitFiles
    /\ mons = <<>>
    /\ logins = [i \in 1..MaxLogins |-> IdleLogin]
    /\ port = None
    /\ refreshes = [j \in 1..MaxRefreshes |-> IdleRefresh]
    /\ calls = <<>>

(***************************************************************************)
(* claude_monitor.rs: claude_usage_monitoring, one action per await point, *)
(* for the instance k of the running streams.                              *)
(***************************************************************************)
\* Duration::from_secs(300)
SleepSecs == 300

\* (variant: the next fetch is issued without awaiting the one in flight)
MonFetch_Overlapping(k) ==
    /\ mons[k].pc \in {"fetch", "await"}
    /\ mons' = [mons EXCEPT ![k].pc = "await", ![k].inflight = @ + 1]
    /\ UNCHANGED <<app, started, home_set, disk, file, logins, port, refreshes, calls>>

\* loop head: get_usage(&token) sends its request
MonFetch(k) ==
    /\ mons[k].pc = "fetch"
    /\ mons' = [mons EXCEPT ![k].pc = "await", ![k].inflight = @ + 1]
    /\ UNCHANGED <<app, started, home_set, disk, file, logins, port, refreshes, calls>>

\* get_usage returns
MonResponse(k) ==
    /\ mons[k].pc = "await"
    /\ \E r \in UsageResponses :
        mons' = [mons EXCEPT ![k].pc = "emit", ![k].inflight = @ - 1,
                             ![k].result = Some(get_usage(r))]
    /\ UNCHANGED <<app, started, home_set, disk, file, logins, port, refreshes, calls>>

\* the error arm's test: an API error whose message contains the marker
AuthExpired(error) ==
    /\ error.antropic_error_response # None
    /\ Contains(error.antropic_error_response[1].message, ANTHROPIC_ERROR_AUTH_EXPIRED)

\* (variant: every API error asks for a refresh, whatever its message, in
\* place of reporting it)
MonMessages_RefreshOnAnyApiError(result) ==
    IF result.tag = "Ok"
    THEN << Message("UpdateUsage", result.usage) >>
    ELSE IF result.antropic_error_response # None
         THEN << Message("RefreshToken", None) >>
         ELSE << Message("ThrowError", Some(result.message)) >>

\* the messages one iteration sends for the result of its fetch
MonMessages(result) ==
    IF result.tag = "Ok"
    THEN << Message("UpdateUsage", result.usage) >>
    ELSE (IF AuthExpired(result)
          THEN <<>>     \* println!("{:?}", antropic_error_response): nothing is sent
          ELSE <<>>)
         \o << Message("ThrowError", Some(result.message)) >>

\* (variant: a failed fetch ends the loop)
MonEmit_ReturnsOnError(k) ==
    /\ mons[k].pc = "emit"
    /\ LET msgs == MonMessages(mons[k].result[1])
       IN  /\ Len(mons[k].channel) + Len(msgs) <= MaxChannel
           /\ mons' = [mons EXCEPT
                    ![k].pc = IF mons[k].result[1].tag = "Err" THEN "returned" ELSE "sleep",
                    ![k].emitted = @ \o msgs, ![k].channel = @ \o msgs,
                    ![k].sleep = SleepSecs]
    /\ UNCHANGED <<app, started, home_set, disk, file, logins, port, refreshes, calls>>

\* the match on the result: channel.send(..).await (suspends while the channel
\* is full; the result of send is discarded), then the sleep begins
MonEmit(k) ==
    /\ mons[k].pc = "emit"
    /\ LET msgs == MonMessages(mons[k].result[1])
       IN  /\ Len(mons[k].channel) + Len(msgs) <= MaxChannel
           /\ mons' = [mons EXCEPT ![k].pc = "sleep", ![k].emitted = @ \o msgs,
                                   ![k].channel = @ \o msgs, ![k].sleep = SleepSecs]
    /\ UNCHANGED <<app, started, home_set, disk, file, logins, port, refreshes, calls>>

\* tokio::time::sleep elapses; the loop repeats
MonWake(k) ==
    /\ mons[k].pc = "sleep"
    /\ mons' = [mons EXCEPT ![k].pc = "fetch", ![k].result = None,
                            ![k].emitted = <<>>, ![k].sleep = 0]
    /\ UNCHANGED <<app, started, home_set, disk, file, logins, port, refreshes, calls>>

claude_usage_monitoring(k) == MonFetch(k) \/ MonResponse(k) \/ MonEmit(k) \/ MonWake(k)

(***************************************************************************)
(* app.rs: AppModel::update, one action per message; each ends with the    *)
(* runtime's re-evaluation of subscription().                              *)
(***************************************************************************)
\* Message::GetLocalCredentials (the startup task of init)
GetLocalCredentials ==
    /\ ~started
    /\ started' = TRUE
    /\ LET r == get_local_credentials(home_set, file)
       IN  app' = IF r.tag = "Ok"
                  THEN [app EXCEPT !.access_token = r.value[1], !.is_usage_visible = TRUE]
                  ELSE app
    /\ mons' = SyncSubscription(subscription(app'), mons)
    /\ UNCHANGED <<home_set, disk, file, logins, port, refreshes, calls>>

\* the streams after the runtime has taken the first message of stream k
Received(k) == [mons EXCEPT ![k].channel = Tail(@)]

\* Message::UpdateUsage, received from the subscription
UpdateUsage(k) ==
    /\ mons[k].channel # <<>> /\ Head(mons[k].channel).type = "UpdateUsage"
    /\ LET usage_data == Head(mons[k].channel).arg[1]
       IN  app' = [app EXCEPT !.daily_usage = usage_data.five_hour,
                              !.weekly_usage = usage_data.seven_day]
    /\ mons' = SyncSubscription(subscription(app'), Received(k))
    /\ UNCHANGED <<started, home_set, disk, file, logins, port, refreshes, calls>>

\* Message::ThrowError, received from the subscription
ThrowErrorFromMonitor(k) ==
    /\ mons[k].channel # <<>> /\ Head(mons[k].channel).type = "ThrowError"
    /\ app' = app
    /\ mons' = SyncSubscription(subscription(app'), Received(k))
    /\ UNCHANGED <<started, home_set, disk, file, logins, port, refreshes, calls>>

\* Message::LoginClicked (the Login button is drawn only while
\* is_usage_visible is false): Task::perform(open_oauth_login())
LoginClicked ==
    /\ started /\ ~app.is_usage_visible
    /\ \E i \in DOMAIN logins :
        /\ logins[i].pc = "idle"
        /\ \A k \in DOMAIN logins : logins[k].pc = "idle" => i <= k
        /\ logins' = [logins EXCEPT ![i].pc = "start"]
    /\ app' = app
    /\ mons' = SyncSubscription(subscription(app'), mons)
    /\ UNCHANGED <<started, home_set, disk, file, port, refreshes, calls>>

(***************************************************************************)
(* claude.rs: open_oauth_login, one action per blocking call.              *)
(***************************************************************************)
LoginFailed(l, e) == [l EXCEPT !.pc = "done", !.result = Some(e)]

\* generate_state, generate_code_verifier, the authorize URL, webbrowser::open
LoginStart(i) ==
    /\ logins[i].pc = "start"
    /\ \E state \in States, code_verifier \in Verifiers, opened \in BOOLEAN :
        LET l == [logins[i] EXCEPT
                    !.state = state, !.code_verifier = code_verifier,
                    !.auth_url = Some([code_challenge |-> generate_code_challenge(code_verifier),
                                       state |-> state])]
        IN  logins' = [logins EXCEPT ![i] =
                IF opened THEN [l EXCEPT !.pc = "bind"]
                ELSE LoginFailed(l, Err("failed to open browser"))]
    /\ UNCHANGED <<app, started, home_set, disk, file, mons, port, refreshes, calls>>

\* (variant: the bind succeeds although the port is held)
CallbackBind_Rebinds(i) ==
    /\ logins[i].pc = "bind"
    /\ port' = Listener(i)
    /\ logins' = [logins EXCEPT ![i].pc = "accept"]
    /\ UNCHANGED <<app, started, home_set, disk, file, mons, refreshes, calls>>

\* wait_for_oauth_callback: TcpListener::bind
CallbackBind(i) ==
    /\ logins[i].pc = "bind"
    /\ IF port = None
       THEN /\ port' = Listener(i)
            /\ logins' = [logins EXCEPT ![i].pc = "accept"]
       ELSE /\ port' = port
            /\ logins' = [logins EXCEPT ![i] =
                    LoginFailed([@ EXCEPT !.callback = Some(Err("failed to bind to port"))],
                                Err("failed to bind to port"))]
    /\ UNCHANGED <<app, started, home_set, disk, file, mons, refreshes, calls>>

\* (variant: the listener outlives an error return)
CallbackFailed_KeepsListener(i, l, e) ==
    /\ logins' = [logins EXCEPT ![i] = LoginFailed([l EXCEPT !.callback = Some(e)], e)]
    /\ port' = port

\* the callback returns an error: the listener is dropped, `?` ends the login
CallbackFailed(i, l, e) ==
    /\ logins' = [logins EXCEPT ![i] = LoginFailed([l EXCEPT !.callback = Some(e)], e)]
    /\ port' = IF port = Listener(i) THEN None ELSE port

\* (variant: the wait for a connection gives up after a while)
CallbackAccept_TimesOut(i) ==
    /\ logins[i].pc = "accept"
    /\ \E accepted \in BOOLEAN :
        IF accepted
        THEN /\ logins' = [logins EXCEPT ![i].pc = "read", ![i].accepted = @ + 1]
             /\ port' = port
        ELSE CallbackFailed(i, logins[i], Err("timed out waiting for connection"))
    /\ UNCHANGED <<app, started, home_set, disk, file, mons, refreshes, calls>>

\* wait_for_oauth_callback: listener.accept (blocks until a connection arrives)
CallbackAccept(i) ==
    /\ logins[i].pc = "accept"
    /\ \E accepted \in BOOLEAN :
        IF accepted
        THEN /\ logins' = [logins EXCEPT ![i].pc = "read", ![i].accepted = @ + 1]
             /\ port' = port
        ELSE CallbackFailed(i, logins[i], Err("failed to accept connection"))
    /\ UNCHANGED <<app, started, home_set, disk, file, mons, refreshes, calls>>

\* wait_for_oauth_callback: stream.read, then the checks on what was read
CallbackRead(i) ==
    /\ logins[i].pc = "read"
    /\ \/ CallbackFailed(i, logins[i], Err("failed to read from stream"))
       \/ \E request \in Requests :
            LET l == [logins[i] EXCEPT !.request = Some(request)]
                code == CallbackCode(request, l.state)
            IN  IF code.tag = "Err"
                THEN CallbackFailed(i, l, code)
                ELSE /\ logins' = [logins EXCEPT ![i] =
                            [l EXCEPT !.pc = "write", !.code = code.value]]
                     /\ port' = port
    /\ UNCHANGED <<app, started, home_set, disk, file, mons, refreshes, calls>>

\* wait_for_oauth_callback: stream.write_all of the HTML success response
CallbackWrite(i) ==
    /\ logins[i].pc = "write"
    /\ \/ /\ logins' = [logins EXCEPT ![i].pc = "return", ![i].responded = TRUE]
          /\ port' = port
       \/ CallbackFailed(i, logins[i], Err("failed to write to stream"))
    /\ UNCHANGED <<app, started, home_set, disk, file, mons, refreshes, calls>>

\* wait_for_oauth_callback: Ok(code); the listener is dropped
CallbackReturn(i) ==
    /\ logins[i].pc = "return"
    /\ logins' = [logins EXCEPT ![i].pc = "exchange",
                                ![i].callback = Some(Ok(logins[i].code[1]))]
    /\ port' = IF port = Listener(i) THEN None ELSE port
    /\ UNCHANGED <<app, started, home_set, disk, file, mons, refreshes, calls>>

wait_for_oauth_callback(i) ==
    \/ CallbackBind(i)
    \/ CallbackAccept(i)
    \/ CallbackRead(i)
    \/ CallbackWrite(i)
    \/ CallbackReturn(i)

\* (variant: the verifier is generated again for the grant request)
ExchangeSend_FreshVerifier(i) ==
    /\ logins[i].pc = "exchange"
    /\ \E code_verifier \in Verifiers :
        logins' = [logins EXCEPT ![i].pc = "token",
            ![i].exchange = Append(@, ExchangeBody(logins[i].callback[1].value[1],
                                                   logins[i].state, code_verifier))]
    /\ UNCHANGED <<app, started, home_set, disk, file, mons, port, refreshes, calls>>

\* exchange_code_for_token(&auth_code, &state, &code_verifier): the POST
ExchangeSend(i) ==
    /\ logins[i].pc = "exchange"
    /\ logins' = [logins EXCEPT ![i].pc = "token",
            ![i].exchange = Append(@, ExchangeBody(logins[i].callback[1].value[1],
                                                   logins[i].state,
                                                   logins[i].code_verifier))]
    /\ UNCHANGED <<app, started, home_set, disk, file, mons, port, refreshes, calls>>

\* (variant: a request that could not be sent is sent again)
ExchangeResponse_RetriesOnSendFailure(i) ==
    /\ logins[i].pc = "token"
    /\ \E r \in TokenResponses :
        logins' = [logins EXCEPT ![i] =
            IF r.transport = "send_failed" /\ Len(@.exchange) < 2
            THEN [@ EXCEPT !.pc = "exchange"]
            ELSE [@ EXCEPT !.pc = "done", !.result = Some(exchange_code_for_token(r))]]
    /\ UNCHANGED <<app, started, home_set, disk, file, mons, port, refreshes, calls>>

\* exchange_code_for_token returns; open_oauth_login returns its result
ExchangeResponse(i) ==
    /\ logins[i].pc = "token"
    /\ \E r \in TokenResponses :
        logins' = [logins EXCEPT ![i].pc = "done",
                                 ![i].result = Some(exchange_code_for_token(r))]
    /\ UNCHANGED <<app, started, home_set, disk, file, mons, port, refreshes, calls>>

open_oauth_login(i) ==
    \/ LoginStart(i)
    \/ wait_for_oauth_callback(i)
    \/ ExchangeSend(i)
    \/ ExchangeResponse(i)

\* another process takes or leaves the callback port
ForeignBind ==
    /\ port = None
    /\ port' = ForeignListener
    /\ UNCHANGED <<app, started, home_set, disk, file, mons, logins, refreshes, calls>>

ForeignRelease ==
    /\ port = ForeignListener
    /\ port' = None
    /\ UNCHANGED <<app, started, home_set, disk, file, mons, logins, refreshes, calls>>

(***************************************************************************)
(* app.rs: the messages the login and refresh tasks end with.              *)
(***************************************************************************)
\* (variant: only the access token is replaced)
Authenticated_KeepsRefreshToken(token) ==
    /\ file' = save_credentials_locally(home_set, file, token, disk)
    /\ app' = [app EXCEPT
                !.access_token = ClaudeCredentials(token.access_token,
                                                   app.access_token.refresh_token),
                !.is_usage_visible = TRUE]
    /\ mons' = SyncSubscription(subscription(app'), mons)

\* the update for a token response: save_credentials_locally (its result is
\* discarded), replace the credentials, is_usage_visible = true
Authenticated(token) ==
    /\ file' = save_credentials_locally(home_set, file, token, disk)
    /\ app' = [app EXCEPT
                !.access_token = ClaudeCredentials(token.access_token, token.refresh_token),
                !.is_usage_visible = TRUE]
    /\ mons' = SyncSubscription(subscription(app'), mons)

\* Message::LoginCompleted(authorization)
LoginCompleted(i) ==
    /\ logins[i].pc = "done" /\ logins[i].result[1].tag = "Ok"
    /\ Authenticated(logins[i].result[1].value[1])
    /\ logins' = [logins EXCEPT ![i] = IdleLogin]
    /\ UNCHANGED <<started, home_set, disk, port, refreshes, calls>>

\* Message::ThrowError(error) of a failed login
ThrowErrorFromLogin(i) ==
    /\ logins[i].pc = "done" /\ logins[i].result[1].tag = "Err"
    /\ app' = app
    /\ mons' = SyncSubscription(subscription(app'), mons)
    /\ logins' = [logins EXCEPT ![i] = IdleLogin]
    /\ UNCHANGED <<started, home_set, disk, file, port, refreshes, calls>>

\* Message::RefreshToken: Task::perform(refresh_credentials(refresh_token))
RefreshToken ==
    /\ started
    /\ \E j \in 1..MaxRefreshes :
        /\ refreshes[j].pc = "idle"
        /\ \A k \in 1..MaxRefreshes : refreshes[k].pc = "idle" => j <= k
        /\ refreshes' = [refreshes EXCEPT ![j] =
                [IdleRefresh EXCEPT !.pc = "send",
                                    !.refresh_token = app.access_token.refresh_token]]
    /\ app' = [app EXCEPT !.is_usage_visible = FALSE]
    /\ mons' = SyncSubscription(subscription(app'), mons)
    /\ UNCHANGED <<started, home_set, disk, file, logins, port, calls>>

\* refresh_credentials: the POST
RefreshSend(j) ==
    /\ refreshes[j].pc = "send"
    /\ refreshes' = [refreshes EXCEPT ![j].pc = "token",
            ![j].sent = Append(@, [grant_type |-> "refresh_token",
                                   refresh_token |-> refreshes[j].refresh_token])]
    /\ UNCHANGED <<app, started, home_set, disk, file, mons, logins, port, calls>>

\* refresh_credentials returns
RefreshResponse(j) ==
    /\ refreshes[j].pc = "token"
    /\ \E r \in TokenResponses :
        refreshes' = [refreshes EXCEPT ![j].pc = "done",
                                       ![j].result = Some(refresh_credentials(r))]
    /\ UNCHANGED <<app, started, home_set, disk, file, mons, logins, port, calls>>

\* Message::RefreshTokenCompleted(new_credentials)
RefreshTokenCompleted(j) ==
    /\ refreshes[j].pc = "done" /\ refreshes[j].result[1].tag = "Ok"
    /\ Authenticated(refreshes[j].result[1].value[1])
    /\ refreshes' = [refreshes EXCEPT ![j] = IdleRefresh]
    /\ UNCHANGED <<started, home_set, disk, logins, port, calls>>

\* (variant: a failed refresh shows the usage of the old session again)
ThrowErrorFromRefresh_LogsBackIn(j) ==
    /\ refreshes[j].pc = "done" /\ refreshes[j].result[1].tag = "Err"
    /\ app' = [app EXCEPT !.is_usage_visible = TRUE]
    /\ mons' = SyncSubscription(subscription(app'), mons)
    /\ refreshes' = [refreshes EXCEPT ![j] = IdleRefresh]
    /\ UNCHANGED <<started, home_set, disk, file, logins, port, calls>>

\* Message::ThrowError(error) of a failed refresh
ThrowErrorFromRefresh(j) ==
    /\ refreshes[j].pc = "done" /\ refreshes[j].result[1].tag = "Err"
    /\ app' = app
    /\ mons' = SyncSubscription(subscription(app'), mons)
    /\ refreshes' = [refreshes EXCEPT ![j] = IdleRefresh]
    /\ UNCHANGED <<started, home_set, disk, file, logins, port, calls>>

\* the application with its monitoring loop and its refresh tasks
MonitorNext ==
    \/ GetLocalCredentials
    \/ \E k \in DOMAIN mons : claude_usage_monitoring(k)
    \/ \E k \in DOMAIN mons : UpdateUsage(k) \/ ThrowErrorFromMonitor(k)
    \/ RefreshToken
    \/ \E j \in 1..MaxRefreshes : RefreshSend(j) \/ RefreshResponse(j)
    \/ \E j \in 1..MaxRefreshes : RefreshTokenCompleted(j) \/ ThrowErrorFromRefresh(j)

\* the application with its login tasks and the callback port
LoginNext ==
    \/ GetLocalCredentials
    \/ LoginClicked
    \/ \E i \in DOMAIN logins : open_oauth_login(i)
    \/ \E i \in DOMAIN logins : LoginCompleted(i) \/ ThrowErrorFromLogin(i)
    \/ ForeignBind
    \/ ForeignRelease

Next == MonitorNext \/ LoginNext

Spec == Init /\ [][Next]_vars

\* the initial states with HOME set, a writable configuration directory and
\* no credentials file, a file with a credential pair, or one with an empty
\* access token or an empty refresh token
InitWritable ==
    /\ Init
    /\ home_set /\ disk = "ok"
    /\ file \in { None,
                  Some(ToJson(ClaudeCredentials("a0", "r0"))),
                  Some(ToJson(ClaudeCredentials("", "r0"))),
                  Some(ToJson(ClaudeCredentials("a0", ""))) }

\* the monitoring loop and the refresh flow alone (no login task runs)
MonitorSpec == InitWritable /\ [][MonitorNext]_vars

\* the login flow alone (the monitoring loop, once started, is not scheduled)
LoginSpec == InitWritable /\ [][LoginNext]_vars

\* the monitoring loop, the application receiving from it, and the one event
\* that drops the subscription (the refresh task it spawns is not scheduled)
PollingNext ==
    \/ GetLocalCredentials
    \/ \E k \in DOMAIN mons : claude_usage_monitoring(k)
    \/ \E k \in DOMAIN mons : UpdateUsage(k) \/ ThrowErrorFromMonitor(k)
    \/ RefreshToken

\* the monitoring loop with the scheduling the executor and the runtime give:
\* a loop that can take its next step takes it, and a message waiting in the
\* channel is received
FairPollingSpec ==
    /\ InitWritable /\ [][PollingNext]_vars
    /\ WF_vars(\E k \in DOMAIN mons : claude_usage_monitoring(k))
    /\ WF_vars(\E k \in DOMAIN mons : UpdateUsage(k) \/ ThrowErrorFromMonitor(k))

\* the login flow and the refresh flow together (the monitoring loop, once
\* started, is not scheduled)
AuthNext ==
    \/ LoginNext
    \/ RefreshToken
    \/ \E j \in 1..MaxRefreshes : RefreshSend(j) \/ RefreshResponse(j)
    \/ \E j \in 1..MaxRefreshes : RefreshTokenCompleted(j) \/ ThrowErrorFromRefresh(j)

AuthSpec == Init /\ [][AuthNext]_vars

AuthWritableSpec == InitWritable /\ [][AuthNext]_vars

\* The Login button stays drawn while a login is in progress, so a second
\* click starts a second open_oauth_login task beside the first.
ReloginInit ==
    /\ app = [is_usage_visible |-> FALSE, access_token |-> DefaultCredentials,
              daily_usage |-> 0, weekly_usage |-> 0]
    /\ started = FALSE
    /\ home_set = TRUE /\ disk = "ok" /\ file = None
    /\ mons = <<>>
    /\ logins = [i \in 1..(MaxLogins + 1) |-> IdleLogin]
    /\ port = None
    /\ refreshes = [j \in 1..MaxRefreshes |-> IdleRefresh]
    /\ calls = <<>>

\* the login flow with room for a second click (no refresh is requested)
ReloginSpec == ReloginInit /\ [][LoginNext]_vars

(***************************************************************************)
(* The functions of claude.rs called on their own.                         *)
(***************************************************************************)
Call(fn, input, output) == [fn |-> fn, input |-> input, output |-> output]

\* save_credentials_locally(&credentials)
CallSave ==
    /\ Len(calls) < MaxCalls
    /\ \E token \in TokenValues :
        /\ file' = save_credentials_locally(home_set, file, token, disk)
        /\ calls' = Append(calls, Call("save_credentials_locally", <<token>>,
                                       SaveResult(home_set, disk)))
    /\ UNCHANGED <<app, started, home_set, disk, mons, logins, port, refreshes>>

\* get_local_credentials()
CallLoad ==
    /\ Len(calls) < MaxCalls
    /\ calls' = Append(calls, Call("get_local_credentials", <<>>,
                                   get_local_credentials(home_set, file)))
    /\ UNCHANGED <<app, started, home_set, disk, file, mons, logins, port, refreshes>>

StoreNext == CallSave \/ CallLoad

\* the credential store under every environment: HOME set or not, the file
\* system accepting or failing a write, any credentials file to begin with
StoreSpec == Init /\ [][StoreNext]_vars

\* get_usage(access_token); the functions below keep nothing between calls,
\* so one call is looked at at a time
CallGetUsage ==
    /\ \E r \in UsageResponses : calls' = << Call("get_usage", <<r>>, get_usage(r)) >>
    /\ UNCHANGED <<app, started, home_set, disk, file, mons, logins, port, refreshes>>

\* exchange_code_for_token(code, state, code_verifier)
CallExchange ==
    /\ \E r \in TokenResponses :
        calls' = << Call("exchange_code_for_token", <<r>>, exchange_code_for_token(r)) >>
    /\ UNCHANGED <<app, started, home_set, disk, file, mons, logins, port, refreshes>>

\* refresh_credentials(refresh_token)
CallRefresh ==
    /\ \E r \in TokenResponses :
        calls' = << Call("refresh_credentials", <<r>>, refresh_credentials(r)) >>
    /\ UNCHANGED <<app, started, home_set, disk, file, mons, logins, port, refreshes>>

HttpNext == CallGetUsage \/ CallExchange \/ CallRefresh

HttpSpec == InitWritable /\ [][HttpNext]_vars

(***************************************************************************)
(* Properties.                                                             *)
(***************************************************************************)
\* how many messages of a type a sequence of messages holds
Count(msgs, type) == Cardinality({ n \in 1..Len(msgs) : msgs[n].type = type })

\* the result of a fetch is an API error whose message holds the expired-token marker
IsExpiredTokenError(result) ==
    /\ result.tag = "Err"
    /\ result.antropic_error_response # None
    /\ Contains(result.antropic_error_response[1].message, <<"OAuth", "token", "has", "expired">>)

\* C1: a poll whose fetch fails with an API error envelope holding the
\* expired-token marker emits exactly one "refresh needed" and exactly one
\* "error" event, and the loop goes on to its next poll.
C1_ExpiredTokenEmitsRefreshAndError ==
    \A k \in DOMAIN mons :
        (mons[k].pc = "sleep" /\ IsExpiredTokenError(mons[k].result[1]))
            => /\ Count(mons[k].emitted, "RefreshToken") = 1
               /\ Count(mons[k].emitted, "ThrowError") = 1
               /\ ENABLED MonWake(k)

\* C3: a poll whose fetch fails for any other reason (transport, unexpected
\* body, API error without the marker) emits exactly one "error" event and no
\* "refresh needed" event, and the loop goes on to its next poll.
C3_OtherFailureEmitsOnlyError ==
    \A k \in DOMAIN mons :
        (mons[k].pc = "sleep" /\ mons[k].result[1].tag = "Err"
            /\ ~IsExpiredTokenError(mons[k].result[1]))
            => /\ mons[k].emitted =
                    << Message("ThrowError", Some(mons[k].result[1].message)) >>
               /\ ENABLED MonWake(k)

C3_Witness ==
    \E k \in DOMAIN mons :
        /\ mons[k].pc = "sleep" /\ mons[k].result[1].tag = "Err"
        /\ mons[k].result[1].antropic_error_response # None
        /\ ~IsExpiredTokenError(mons[k].result[1])
        /\ Count(mons[k].emitted, "ThrowError") = 1

\* C4: the loop never stops by its own action: after every poll, succeeded or
\* failed, it sleeps the same fixed interval, and under fair scheduling a poll
\* that has ended is followed by another fetch unless the subscription is
\* dropped.
C4_LoopKeepsPolling ==
    /\ [](\A k \in DOMAIN mons : mons[k].pc = "sleep" => mons[k].sleep = SleepSecs)
    /\ (\E k \in DOMAIN mons : mons[k].pc \in {"emit", "sleep"})
            ~> (mons = <<>> \/ \E k \in DOMAIN mons : mons[k].pc = "await")

C4_Witness ==
    \E k \in DOMAIN mons :
        /\ mons[k].pc = "sleep" /\ mons[k].sleep = SleepSecs
        /\ mons[k].result[1].tag = "Err"

\* the order of the steps of one iteration
IterationOrder ==
    { <<"fetch", "await">>, <<"await", "emit">>, <<"emit", "sleep">>, <<"sleep", "fetch">> }

\* C5: the steps of an iteration go fetch, emit, sleep in that order and
\* iterations do not overlap: a loop never has two fetches in flight, and a
\* successful poll has emitted exactly one "usage updated" event, carrying
\* the snapshot of that poll, when its sleep begins.
C5_IterationIsSequential ==
    /\ [](\A k \in DOMAIN mons :
            /\ mons[k].inflight <= 1
            /\ mons[k].inflight = 1 <=> mons[k].pc = "await"
            /\ mons[k].pc \in {"fetch", "await", "emit"} => mons[k].emitted = <<>>
            /\ (mons[k].pc = "sleep" /\ mons[k].result[1].tag = "Ok")
                => mons[k].emitted = << Message("UpdateUsage", mons[k].result[1].usage) >>)
    /\ [][\A k \in DOMAIN mons \cap DOMAIN mons' :
            mons'[k].pc # mons[k].pc => <<mons[k].pc, mons'[k].pc>> \in IterationOrder]_vars

C5_Witness ==
    \E k \in DOMAIN mons :
        /\ mons[k].pc = "sleep" /\ mons[k].result[1].tag = "Ok"
        /\ mons[k].result[1].usage = Some([five_hour |-> 7, seven_day |-> 99])
        /\ Len(mons[k].emitted) = 1

\* C6: at most one monitoring loop runs, a loop runs only while the
\* application holds credentials (is_usage_visible and a non-empty access
\* token), and loops start and stop only in steps that change the
\* application's state.
C6_SingleMonitorWhileLoggedIn ==
    /\ [](/\ Len(mons) <= 1
          /\ mons # <<>> => (app.is_usage_visible /\ app.access_token.access_token # ""))
    /\ [][Len(mons') # Len(mons) => (app' # app \/ started' # started)]_vars

C6_Witness ==
    /\ Len(mons) = 1 /\ mons[1].token = "a1" /\ mons[1].pc = "await"
    /\ app.is_usage_visible /\ app.access_token.access_token = "a1"

\* the state parameter the callback request of login i carries
ReceivedState(i) == extract_param_from_url(logins[i].request[1], "state")

\* the code parameter the callback request of login i carries
ReceivedCode(i) == extract_param_from_url(logins[i].request[1], "code")

\* C2: a callback whose received state differs from the expected state makes
\* wait_for_oauth_callback return the state-mismatch error, never a code, and
\* open_oauth_login sends no token-exchange request for that attempt.
C2_StateMismatchEndsLogin ==
    \A i \in 1..MaxLogins :
        (/\ logins[i].request # None
         /\ ReceivedState(i).tag = "Ok"
         /\ ReceivedState(i).value[1] # logins[i].state)
            => /\ logins[i].callback = Some(Err("state value is not the same"))
               /\ logins[i].code = None
               /\ logins[i].exchange = <<>>
               /\ logins[i].pc = "done"
               /\ logins[i].result = logins[i].callback

C2_Witness ==
    \E i \in 1..MaxLogins :
        /\ logins[i].state = "abc123"
        /\ logins[i].request = Some(<< <<"state", "5f0e77">>, <<"code", "XYZ">> >>)
        /\ logins[i].callback = Some(Err("state value is not the same"))

\* C7: a code is returned only for a request that carries the expected state
\* and a code, it is exactly the code of the request, and the success response
\* has been written to the connection before it is returned; once the response
\* is written the callback returns that code.
C7_CodeReturnedAfterResponse ==
    /\ [](\A i \in 1..MaxLogins :
            /\ (logins[i].callback # None /\ logins[i].callback[1].tag = "Ok")
                => /\ logins[i].responded
                   /\ logins[i].request # None
                   /\ ReceivedState(i) = Ok(logins[i].state)
                   /\ logins[i].callback[1] = ReceivedCode(i)
            /\ (logins[i].request # None /\ ReceivedState(i) = Ok(logins[i].state)
                    /\ ReceivedCode(i).tag = "Ok")
                => \/ logins[i].pc \in {"write", "return"}
                   \/ logins[i].callback = Some(ReceivedCode(i))
                   \/ logins[i].callback = Some(Err("failed to write to stream"))
            /\ logins[i].responded
                => \/ logins[i].pc = "return"
                   \/ logins[i].callback = Some(ReceivedCode(i)))
    /\ [][\A i \in 1..MaxLogins :
            (logins'[i].responded /\ ~logins[i].responded)
                => logins'[i].callback = None]_vars

C7_Witness ==
    \E i \in 1..MaxLogins :
        /\ logins[i].state = "abc123"
        /\ logins[i].request = Some(<< <<"state", "abc123">>, <<"code", "XYZ">> >>)
        /\ logins[i].responded
        /\ logins[i].callback = Some(Ok("XYZ"))

\* how a finished callback ended
CallbackOutcome(i) ==
    IF logins[i].callback[1].tag = "Ok" THEN "code"
    ELSE logins[i].callback[1].error.fmt

\* C8: the callback receiver is one-shot: a login attempt accepts at most one
\* connection, exactly one whenever it ends with a code, a malformed-callback
\* error, a state mismatch or an I/O error on the connection, and once the
\* callback has returned, whatever the outcome, its listener no longer holds
\* the port.
C8_OneShotListener ==
    \A i \in 1..MaxLogins :
        /\ logins[i].accepted <= 1
        /\ port = Listener(i) => logins[i].pc \in {"accept", "read", "write", "return"}
        /\ logins[i].pc \in {"read", "write", "return"}
            => (logins[i].accepted = 1 /\ port = Listener(i))
        /\ logins[i].callback # None => port # Listener(i)
        /\ (logins[i].callback # None
                /\ CallbackOutcome(i) \in {"code", "missing parameter",
                        "state value is not the same", "failed to read from stream",
                        "failed to write to stream"})
            => logins[i].accepted = 1

C8_Witness ==
    \E i \in 1..MaxLogins :
        /\ logins[i].callback # None
        /\ CallbackOutcome(i) = "failed to write to stream"
        /\ logins[i].accepted = 1
        /\ port = None

\* C9 (as claimed): a callback request that lacks the state or the code
\* parameter yields a malformed-callback error, never a code, and the
\* connection has been answered with a response before the error is returned.
C9_MalformedCallbackIsAnswered ==
    \A i \in 1..MaxLogins :
        (logins[i].request # None
            /\ (ReceivedState(i).tag = "Err" \/ ReceivedCode(i).tag = "Err"))
            => /\ logins[i].callback # None
               /\ CallbackOutcome(i) = "missing parameter"
               /\ logins[i].code = None
               /\ logins[i].responded

\* C9 (amended): a callback request that lacks the state parameter, or carries
\* the expected state and lacks the code parameter, yields a malformed-callback
\* error naming the missing parameter and never a code; the error is returned
\* without any response having been written to the connection, and no token
\* exchange follows.
C9_MalformedCallbackIsNotAnswered ==
    \A i \in 1..MaxLogins :
        (logins[i].request # None
            /\ \/ ReceivedState(i).tag = "Err"
               \/ (ReceivedState(i) = Ok(logins[i].state) /\ ReceivedCode(i).tag = "Err"))
            => /\ logins[i].callback = Some(ErrWith("missing parameter",
                        IF ReceivedState(i).tag = "Err" THEN "state" ELSE "code"))
               /\ logins[i].code = None
               /\ ~logins[i].responded
               /\ logins[i].exchange = <<>>
               /\ logins[i].result = logins[i].callback

C9_Witness ==
    \E i \in 1..MaxLogins :
        /\ logins[i].state = "abc123"
        /\ logins[i].request = Some(<< <<"state", "abc123">> >>)
        /\ logins[i].callback = Some(ErrWith("missing parameter", "code"))
        /\ ~logins[i].responded

\* C10: when the callback port is already held, wait_for_oauth_callback fails
\* with the bind error without accepting a connection and without taking the
\* port, and the login attempt ends with that error and no token exchange.
C10_BindErrorEndsLogin ==
    /\ [](\A i \in 1..MaxLogins :
            logins[i].callback = Some(Err("failed to bind to port"))
                => /\ logins[i].accepted = 0
                   /\ logins[i].exchange = <<>>
                   /\ logins[i].pc = "done"
                   /\ logins[i].result = logins[i].callback
                   /\ port # Listener(i))
    /\ [][\A i \in 1..MaxLogins :
            (logins[i].pc = "bind" /\ logins'[i].pc # "bind" /\ port # None)
                => /\ logins'[i].callback = Some(Err("failed to bind to port"))
                   /\ port' = port]_vars

C10_Witness ==
    \E i \in 1..MaxLogins :
        /\ logins[i].callback = Some(Err("failed to bind to port"))
        /\ logins[i].pc = "done"
        /\ port = ForeignListener

\* the position of a step of open_oauth_login in the order of its code
LoginRank(pc) ==
    CASE pc = "idle" -> 0 [] pc = "start" -> 1 [] pc = "bind" -> 2
      [] pc = "accept" -> 3 [] pc = "read" -> 4 [] pc = "write" -> 5
      [] pc = "return" -> 6 [] pc = "exchange" -> 7 [] pc = "token" -> 8
      [] pc = "done" -> 9

\* the position of a step of refresh_credentials in the order of its code
RefreshRank(pc) ==
    CASE pc = "idle" -> 0 [] pc = "send" -> 1 [] pc = "token" -> 2 [] pc = "done" -> 3

\* C11: an error ends the login or refresh attempt it occurs in: an attempt
\* sends at most one grant request to the token endpoint, it never goes back
\* to an earlier step, a failed attempt ends with one error, which is
\* delivered as one message, after which the attempt is over.
C11_ErrorEndsAttempt ==
    /\ []( /\ \A i \in 1..MaxLogins :
                /\ Len(logins[i].exchange) <= 1
                /\ (logins[i].pc = "done" /\ logins[i].result[1].tag = "Err")
                    => /\ ENABLED ThrowErrorFromLogin(i)
                       /\ ~ENABLED open_oauth_login(i)
                       /\ ~ENABLED LoginCompleted(i)
           /\ \A j \in 1..MaxRefreshes :
                /\ Len(refreshes[j].sent) <= 1
                /\ (refreshes[j].pc = "done" /\ refreshes[j].result[1].tag = "Err")
                    => /\ ENABLED ThrowErrorFromRefresh(j)
                       /\ ~ENABLED (RefreshSend(j) \/ RefreshResponse(j))
                       /\ ~ENABLED RefreshTokenCompleted(j))
    /\ [][ /\ \A i \in 1..MaxLogins :
                logins'[i] # logins[i]
                    => IF logins[i].pc = "done"
                       THEN logins'[i] = IdleLogin
                       ELSE LoginRank(logins'[i].pc) > LoginRank(logins[i].pc)
           /\ \A j \in 1..MaxRefreshes :
                refreshes'[j] # refreshes[j]
                    => IF refreshes[j].pc = "done"
                       THEN refreshes'[j] = IdleRefresh
                       ELSE RefreshRank(refreshes'[j].pc) > RefreshRank(refreshes[j].pc)]_vars

C11_Witness ==
    /\ \E i \in 1..MaxLogins :
        /\ logins[i].pc = "done" /\ Len(logins[i].exchange) = 1
        /\ logins[i].result = Some(Err("failed to send request"))
    /\ \E j \in 1..MaxRefreshes :
        /\ refreshes[j].pc = "done" /\ Len(refreshes[j].sent) = 1
        /\ refreshes[j].result[1].tag = "Err"

\* the application is in the logged-in state
LoggedIn == app.is_usage_visible

\* what a load of the credentials file would return now
Stored == get_local_credentials(TRUE, file)

\* C12: whenever the application is in the logged-in state, the credentials
\* file holds the access_token and refresh_token of the in-memory credentials:
\* a login or refresh that completes has written its pair before the
\* application is logged in with it.
C12_LoggedInMeansPersisted ==
    LoggedIn => Stored = Ok(app.access_token)

\* the pair a token response is turned into
CredentialsOf(token) == ClaudeCredentials(token.access_token, token.refresh_token)

\* every pair that one source can give: the default, a load of a credentials
\* file, a token response
CredentialSources ==
    { DefaultCredentials }
    \cup { CredentialsOf(t) : t \in TokenValues }
    \cup { r.value[1] : r \in { x \in { get_local_credentials(TRUE, f) : f \in InitFiles } :
                                   x.tag = "Ok" } }

\* C13: the in-memory credentials are replaced as a whole pair: both tokens
\* always come from one source, and a step that changes them installs the
\* pair of the one token response or file load the step handles.
C13_PairReplacedAsAWhole ==
    /\ [](app.access_token \in CredentialSources)
    /\ [][app'.access_token # app.access_token
            => \/ \E i \in DOMAIN logins :
                    /\ logins[i].pc = "done" /\ logins[i].result[1].tag = "Ok"
                    /\ app'.access_token = CredentialsOf(logins[i].result[1].value[1])
               \/ \E j \in 1..MaxRefreshes :
                    /\ refreshes[j].pc = "done" /\ refreshes[j].result[1].tag = "Ok"
                    /\ app'.access_token = CredentialsOf(refreshes[j].result[1].value[1])
               \/ /\ ~started
                  /\ get_local_credentials(home_set, file) = Ok(app'.access_token)]_vars

C13_Witness ==
    /\ app.access_token = ClaudeCredentials("a2", "r2")
    /\ file = Some(ToJson(ClaudeCredentials("a2", "r2")))
    /\ \E j \in 1..MaxRefreshes : refreshes[j].refresh_token = "r0"

\* C14: credentials the application is logged in with have a non-empty
\* access_token and a non-empty refresh_token.
C14_LoggedInCredentialsNonEmpty ==
    /\ LoggedIn => (app.access_token.access_token # "" /\ app.access_token.refresh_token # "")
    /\ mons # <<>> => app.access_token.refresh_token # ""

\* C20: a running monitoring loop polls with the application's current
\* in-memory access token.
C20_MonitorPollsWithCurrentToken ==
    \A k \in DOMAIN mons : mons[k].token = app.access_token.access_token

\* C15: a load that follows a successful save returns exactly the pair that
\* was saved, whatever the file held before (no file, another pair, an
\* earlier save, text that is not JSON).
C15_SaveThenLoadRoundTrip ==
    \A n \in 2..Len(calls) :
        (/\ calls[n].fn = "get_local_credentials"
         /\ calls[n - 1].fn = "save_credentials_locally"
         /\ calls[n - 1].output.tag = "Ok")
            => calls[n].output = Ok(CredentialsOf(calls[n - 1].input[1]))

C15_Witness ==
    /\ Len(calls) = 3
    /\ calls[1].fn = "save_credentials_locally" /\ calls[1].input[1].access_token = "a1"
    /\ calls[1].output.tag = "Ok"
    /\ calls[2].fn = "save_credentials_locally" /\ calls[2].input[1].access_token = "a2"
    /\ calls[3].fn = "get_local_credentials"
    /\ calls[3].output = Ok(ClaudeCredentials("a2", "r2"))

\* the calls of get_usage whose request got a response with a body
UsageCalls == { n \in DOMAIN calls : calls[n].fn = "get_usage" }

\* C16: get_usage classifies a received body in a fixed order whatever the
\* status: a body that decodes as a usage snapshot gives the snapshot; else a
\* body that decodes as an error envelope gives the API error carrying the
\* envelope; else the unexpected-format error carrying the body.
C16_BodyClassifiedInOrder ==
    \A n \in UsageCalls :
        LET r == calls[n].input[1]
            out == calls[n].output
        IN  r.transport = "ok"
            => /\ r.body.usage # None
                    => (out.tag = "Ok" /\ out.usage = r.body.usage)
               /\ (r.body.usage = None /\ r.body.error # None)
                    => /\ out.tag = "Err"
                       /\ out.antropic_error_response = r.body.error
                       /\ out.message = ErrorText("api error", r.body.error)
               /\ (r.body.usage = None /\ r.body.error = None)
                    => /\ out.tag = "Err"
                       /\ out.antropic_error_response = None
                       /\ out.message = ErrorText("unexpected api response format",
                                                  Some(r.body))

C16_Witness ==
    \E n \in UsageCalls :
        /\ calls[n].input[1].status = 401
        /\ calls[n].input[1].body.usage # None /\ calls[n].input[1].body.error # None
        /\ calls[n].output.tag = "Ok"

\* the kind of a token endpoint error, from its message
TokenErrorKind(result) ==
    CASE result.error.fmt \in {"token exchange failed with status",
                               "Token refresh failed with status"} -> "ExchangeFailed"
      [] result.error.fmt \in {"failed to parse token response",
                               "Failed to parse token response"} -> "ParseError"
      [] OTHER -> "Other"

\* the calls of the two token endpoint functions
TokenCalls ==
    { n \in DOMAIN calls : calls[n].fn \in {"exchange_code_for_token", "refresh_credentials"} }

\* C17 (as claimed): for both calls a response whose status is not 2xx always
\* gives the exchange-failed error carrying the status and the response body
\* and never a token response, a 2xx response whose body does not parse gives
\* the parse error, and both calls treat a response the same way.
C17_StatusAndParseHandledAlike ==
    \A n \in TokenCalls :
        LET r == calls[n].input[1]
            out == calls[n].output
        IN  r.transport # "send_failed"
            => /\ ~is_success(r.status)
                    => /\ out.tag = "Err" /\ TokenErrorKind(out) = "ExchangeFailed"
                       /\ out.error.arg = Some([status |-> r.status, body |-> r.body])
               /\ (is_success(r.status) /\ r.body.token = None)
                    => (out.tag = "Err" /\ TokenErrorKind(out) = "ParseError")

\* C17 (amended): for both calls, when the response body is received, a
\* status that is not 2xx gives the exchange-failed error carrying the status
\* and the body, and a 2xx body that does not parse gives the parse error;
\* when reading the body fails the call ends in an error; a status that is
\* not 2xx never gives a token response.
C17_StatusAndParseWhenBodyReceived ==
    \A n \in TokenCalls :
        LET r == calls[n].input[1]
            out == calls[n].output
        IN  /\ r.transport = "ok"
                => /\ ~is_success(r.status)
                        => /\ out.tag = "Err" /\ TokenErrorKind(out) = "ExchangeFailed"
                           /\ out.error.arg = Some([status |-> r.status, body |-> r.body])
                   /\ (is_success(r.status) /\ r.body.token = None)
                        => (out.tag = "Err" /\ TokenErrorKind(out) = "ParseError")
            /\ r.transport = "read_failed" => out.tag = "Err"
            /\ (r.transport # "send_failed" /\ ~is_success(r.status)) => out.tag = "Err"

C17_Witness ==
    \E n \in TokenCalls :
        /\ calls[n].fn = "exchange_code_for_token"
        /\ calls[n].input[1].transport = "ok" /\ calls[n].input[1].status = 400
        /\ calls[n].input[1].body.token # None
        /\ TokenErrorKind(calls[n].output) = "ExchangeFailed"

\* C18: the callback receiver has no timeout: while it waits for a
\* connection the login attempt has no result to deliver and its listener
\* holds the port, and it leaves the wait only by accepting a connection or
\* by an error of accept itself.
C18_NoTimeoutWhileWaiting ==
    /\ [](\A i \in DOMAIN logins :
            logins[i].pc = "accept"
                => /\ port = Listener(i)
                   /\ logins[i].callback = None /\ logins[i].result = None
                   /\ ~ENABLED LoginCompleted(i)
                   /\ ~ENABLED ThrowErrorFromLogin(i))
    /\ [][\A i \in DOMAIN logins :
            (logins[i].pc = "accept" /\ logins'[i] # logins[i])
                => \/ logins'[i].pc = "read" /\ logins'[i].accepted = logins[i].accepted + 1
                   \/ logins'[i].callback = Some(Err("failed to accept connection"))]_vars

C18_Witness ==
    \E i \in DOMAIN logins :
        /\ logins[i].pc = "accept" /\ port = Listener(i)
        /\ logins[i].accepted = 0 /\ ~app.is_usage_visible

\* the category a caller can read off a usage error value
UsageErrorCategory(error) ==
    IF error.antropic_error_response # None THEN "Api"
    ELSE IF error.message.fmt \in {"error requesting usage", "error reading response text"}
    THEN "Transport"
    ELSE "Unexpected"

\* C19: the error get_usage returns tells a caller which kind of failure it
\* was: a request that could not be sent or a body that could not be read
\* gives an error that differs from every API error and every
\* unexpected-body error.
C19_TransportErrorIsDistinguishable ==
    \A n \in UsageCalls :
        LET r == calls[n].input[1]
            out == calls[n].output
        IN  out.tag = "Err"
            => UsageErrorCategory(out) =
                    IF r.transport # "ok" THEN "Transport"
                    ELSE IF r.body.error # None THEN "Api" ELSE "Unexpected"

C19_Witness ==
    \E n \in UsageCalls :
        /\ calls[n].input[1].transport = "read_failed"
        /\ UsageErrorCategory(calls[n].output) = "Transport"

\* a refresh task is between the refresh intent and the handling of its result
RefreshInProgress(j) == refreshes[j].pc \in {"send", "token", "done"}

\* the step is the handling of Message::RefreshToken that starts task j
IsRefreshIntent(j) == refreshes[j].pc = "idle" /\ refreshes'[j].pc = "send"

\* the step is the handling of the result of task j, a success or a failure
IsRefreshCompleted(j) ==
    /\ refreshes[j].pc = "done" /\ refreshes[j].result[1].tag = "Ok"
    /\ refreshes'[j] = IdleRefresh

IsRefreshFailed(j) ==
    /\ refreshes[j].pc = "done" /\ refreshes[j].result[1].tag = "Err"
    /\ refreshes'[j] = IdleRefresh

\* the step is the handling of the result of login i, a success or a failure
IsLoginCompleted(i) ==
    /\ logins[i].pc = "done" /\ logins[i].result[1].tag = "Ok"
    /\ logins'[i] = IdleLogin

IsLoginFailed(i) ==
    /\ logins[i].pc = "done" /\ logins[i].result[1].tag = "Err"
    /\ logins'[i] = IdleLogin

\* C21: handling a refresh intent clears the logged-in flag and stops the
\* monitoring loop before the request is sent, the request carries the
\* refresh_token held at that moment, no loop runs while the refresh is in
\* progress, and handling refresh-completed installs the new pair and leaves
\* one monitoring loop at its first poll with the new access token.
C21_RefreshStopsAndRestartsMonitor ==
    /\ [](\A j \in 1..MaxRefreshes :
            /\ RefreshInProgress(j) => (~LoggedIn /\ mons = <<>>)
            /\ refreshes[j].sent # <<>>
                => refreshes[j].sent[1].refresh_token = refreshes[j].refresh_token)
    /\ [][\A j \in 1..MaxRefreshes :
            /\ IsRefreshIntent(j)
                => /\ refreshes'[j].refresh_token = app.access_token.refresh_token
                   /\ refreshes'[j].sent = <<>>
                   /\ ~app'.is_usage_visible /\ mons' = <<>>
            /\ IsRefreshCompleted(j)
                => /\ app'.access_token = CredentialsOf(refreshes[j].result[1].value[1])
                   /\ app'.is_usage_visible
                   /\ Len(mons') = 1
                   /\ mons'[1].token = refreshes[j].result[1].value[1].access_token
                   /\ mons'[1].pc = "fetch"]_vars

\* C22: a failed login or refresh changes neither the in-memory pair nor the
\* credentials file: no step of an attempt other than the handling of its
\* success touches them, and the handling of a failure leaves the
\* application, the file and the monitoring loops as they are. Once a refresh
\* intent has logged the application out it stays logged out, with no
\* monitoring loop, until a login or a refresh succeeds.
C22_FailureChangesNothing ==
    /\ [](~LoggedIn => mons = <<>>)
    /\ [][ /\ \A i \in DOMAIN logins :
                (logins'[i] # logins[i] /\ ~IsLoginCompleted(i))
                    => (app' = app /\ file' = file /\ mons' = mons)
           /\ \A j \in 1..MaxRefreshes :
                /\ (refreshes'[j] # refreshes[j] /\ ~IsRefreshCompleted(j))
                    => (app'.access_token = app.access_token /\ file' = file)
                /\ IsRefreshFailed(j) => (app' = app /\ mons' = mons)
           /\ (~LoggedIn /\ app'.is_usage_visible)
                => \/ \E i \in DOMAIN logins : IsLoginCompleted(i)
                   \/ \E j \in 1..MaxRefreshes : IsRefreshCompleted(j)
                   \/ ~started]_vars

C22_Witness ==
    /\ \E j \in 1..MaxRefreshes :
        /\ refreshes[j].pc = "done" /\ refreshes[j].result[1].tag = "Err"
        /\ refreshes[j].refresh_token = "r1"
    /\ \E i \in DOMAIN logins :
        /\ logins[i].pc = "done" /\ logins[i].result[1].tag = "Err"
    /\ app.access_token = ClaudeCredentials("a1", "r1")
    /\ file = Some(ToJson(ClaudeCredentials("a1", "r1")))
    /\ ~LoggedIn /\ mons = <<>>

LoadErrorOf(home, f) ==
    IF ~home THEN "home environment variable not set"
    ELSE IF f = None THEN "failed to read credentials file"
    ELSE "error getting credentials"

\* C24: the credentials file is loaded once, at startup. A failed load,
\* reported with the error of its cause, leaves the application logged out
\* with empty credentials and no monitoring loop; a successful load logs the
\* application in with exactly the loaded pair and starts one monitoring
\* loop, at its first poll, with the loaded access token.
C24_StartupLoad ==
    /\ [](~started => (app.access_token = DefaultCredentials /\ ~LoggedIn /\ mons = <<>>))
    /\ [][started => started']_vars
    /\ [][(~started /\ started')
            => LET r == get_local_credentials(home_set, file)
               IN  IF r.tag = "Err"
                   THEN /\ r.error.fmt = LoadErrorOf(home_set, file)
                        /\ app'.access_token = DefaultCredentials
                        /\ ~app'.is_usage_visible
                        /\ mons' = <<>>
                   ELSE /\ app'.access_token = r.value[1]
                        /\ app'.is_usage_visible
                        /\ Len(mons') = 1
                        /\ mons'[1].token = r.value[1].access_token
                        /\ mons'[1].pc = "fetch"]_vars

====
